---- MODULE Spec2Model ----
(***************************************************************************)
(* scripts/create_final_working_model.py: the rule-based fallback          *)
(* classifier of SMS texts, the model-backed classifier that falls back to *)
(* it, and the loading of the test cases.                                  *)
(*                                                                         *)
(* A text is a TLA+ string; a character is a string of length 1.  Python's *)
(* None is the string "None": no field of a record can hold that text      *)
(* otherwise (a captured text is upper-cased or holds no lower-case        *)
(* letter, a number is a numeral).                                         *)
(***************************************************************************)
EXTENDS Integers, Sequences, FiniteSets, TLC

(***************************************************************************)
(* Characters and the str methods the classifier uses.                     *)
(***************************************************************************)
UpperLetters == "ABCDEFGHIJKLMNOPQRSTUVWXYZ"

LowerLetters == "abcdefghijklmnopqrstuvwxyz"

Digits == "0123456789"

Chars(s) == {SubSeq(s, i, i) : i \in 1..Len(s)}

UpperSet == Chars(UpperLetters)

LowerSet == Chars(LowerLetters)

DigitSet == Chars(Digits)

\* \s of the re module, over the characters a text of the model can hold
SpaceSet == {" ", "\t", "\n"}

\* \w of the re module, over the characters a text of the model can hold
WordSet == UpperSet \cup LowerSet \cup DigitSet \cup {"_"}

IndexIn(c, s) == CHOOSE i \in 1..Len(s) : SubSeq(s, i, i) = c

LowerTable == [c \in UpperSet |-> SubSeq(LowerLetters, IndexIn(c, UpperLetters), IndexIn(c, UpperLetters))]

UpperTable == [c \in LowerSet |-> SubSeq(UpperLetters, IndexIn(c, LowerLetters), IndexIn(c, LowerLetters))]

LowerChar(c) == IF c \in UpperSet THEN LowerTable[c] ELSE c

UpperChar(c) == IF c \in LowerSet THEN UpperTable[c] ELSE c

RECURSIVE lower(_)
\* str.lower()
lower(s) == IF s = "" THEN "" ELSE LowerChar(SubSeq(s, 1, 1)) \o lower(SubSeq(s, 2, Len(s)))

RECURSIVE upper(_)
\* str.upper()
upper(s) == IF s = "" THEN "" ELSE UpperChar(SubSeq(s, 1, 1)) \o upper(SubSeq(s, 2, Len(s)))

\* needle in hay
Contains(hay, needle) ==
    \E i \in 1..(Len(hay) - Len(needle) + 1) : SubSeq(hay, i, i + Len(needle) - 1) = needle

\* any(keyword in text for keyword in keywords), keywords a sequence
ContainsAny(text, keywords) == \E k \in 1..Len(keywords) : Contains(text, keywords[k])

RECURSIVE RemoveChar(_, _)
\* str.replace(c, '') for a single character c
RemoveChar(s, c) ==
    IF s = "" THEN ""
    ELSE (IF SubSeq(s, 1, 1) = c THEN "" ELSE SubSeq(s, 1, 1)) \o RemoveChar(SubSeq(s, 2, Len(s)), c)

RECURSIVE LStrip(_)
LStrip(s) == IF s # "" /\ SubSeq(s, 1, 1) \in SpaceSet THEN LStrip(SubSeq(s, 2, Len(s))) ELSE s

RECURSIVE RStrip(_)
RStrip(s) == IF s # "" /\ SubSeq(s, Len(s), Len(s)) \in SpaceSet THEN RStrip(SubSeq(s, 1, Len(s) - 1)) ELSE s

\* str.strip()
strip(s) == LStrip(RStrip(s))

(***************************************************************************)
(* float(): the texts it is given here hold digits and dots only.  A value *)
(* is written as Python prints it ("904.0", "58859.45"): no leading zero   *)
(* in the integer part and no trailing zero in the fraction, so that equal *)
(* numbers are equal values (for numerals of up to 15 digits, which a      *)
(* float holds exactly).  "ValueError" is the exception float raises.      *)
(***************************************************************************)
RECURSIVE StripTrailingZeros(_)
StripTrailingZeros(s) ==
    IF s # "" /\ SubSeq(s, Len(s), Len(s)) = "0" THEN StripTrailingZeros(SubSeq(s, 1, Len(s) - 1)) ELSE s

RECURSIVE StripLeadingZeros(_)
StripLeadingZeros(s) ==
    IF s # "" /\ SubSeq(s, 1, 1) = "0" THEN StripLeadingZeros(SubSeq(s, 2, Len(s))) ELSE s

AllDigits(s) == \A i \in 1..Len(s) : SubSeq(s, i, i) \in DigitSet

float(s) ==
    LET dots == {i \in 1..Len(s) : SubSeq(s, i, i) = "."}
        dot  == IF dots = {} THEN Len(s) + 1 ELSE CHOOSE i \in dots : \A j \in dots : i <= j
        ip   == SubSeq(s, 1, dot - 1)
        fp   == SubSeq(s, dot + 1, Len(s))
        ipc  == StripLeadingZeros(ip)
        fpc  == StripTrailingZeros(fp)
    IN IF Cardinality(dots) <= 1 /\ AllDigits(ip) /\ AllDigits(fp) /\ Len(ip) + Len(fp) > 0
       THEN (IF ipc = "" THEN "0" ELSE ipc) \o "." \o (IF fpc = "" THEN "0" ELSE fpc)
       ELSE "ValueError"

(***************************************************************************)
(* The re module: a pattern is a tree, Match gives the ends (and group 1)  *)
(* of the matches of a pattern from a position in the order a backtracking *)
(* matcher tries them, re.search takes the first of the leftmost start.    *)
(***************************************************************************)
Lit(s) == [t |-> "lit", s |-> s]

Cls(set) == [t |-> "cls", set |-> set]

Cat(items) == [t |-> "cat", items |-> items]

Alt(alts) == [t |-> "alt", alts |-> alts]

\* max < 0: no upper limit
Rep(body, min, max, greedy) == [t |-> "rep", body |-> body, min |-> min, max |-> max, greedy |-> greedy]

Star(body) == Rep(body, 0, -1, TRUE)

Plus(body) == Rep(body, 1, -1, TRUE)

LazyPlus(body) == Rep(body, 1, -1, FALSE)

Opt(body) == Rep(body, 0, 1, TRUE)

Grp(body) == [t |-> "grp", body |-> body]

Eos == [t |-> "eos"]

InClass(c, set, ic) == c \in set \/ (ic /\ (LowerChar(c) \in set \/ UpperChar(c) \in set))

RECURSIVE Match(_, _, _, _)
RECURSIVE MatchCat(_, _, _, _, _)
RECURSIVE MatchAlt(_, _, _, _, _)
RECURSIVE MatchRep(_, _, _, _, _)
RECURSIVE MatchEach(_, _, _, _, _, _)
RECURSIVE RepEach(_, _, _, _, _, _)

\* the matches of items[k..] from each of the states sts, in order
MatchEach(sts, j, items, k, s, ic) ==
    IF j > Len(sts) THEN <<>>
    ELSE MatchCat(items, k, s, sts[j], ic) \o MatchEach(sts, j + 1, items, k, s, ic)

MatchCat(items, k, s, st, ic) ==
    IF k > Len(items) THEN <<st>>
    ELSE MatchEach(Match(items[k], s, st, ic), 1, items, k + 1, s, ic)

MatchAlt(alts, k, s, st, ic) ==
    IF k > Len(alts) THEN <<>>
    ELSE Match(alts[k], s, st, ic) \o MatchAlt(alts, k + 1, s, st, ic)

\* one more repetition from each of the states sts (each is past st: the
\* bodies repeated here match one character)
RepEach(sts, j, re, n, s, ic) ==
    IF j > Len(sts) THEN <<>>
    ELSE MatchRep(re, n, s, sts[j], ic) \o RepEach(sts, j + 1, re, n, s, ic)

\* n repetitions are done
MatchRep(re, n, s, st, ic) ==
    LET more == IF re.max < 0 \/ n < re.max
                THEN RepEach(Match(re.body, s, st, ic), 1, re, n + 1, s, ic)
                ELSE <<>>
        stop == IF n >= re.min THEN <<st>> ELSE <<>>
    IN IF re.greedy THEN more \o stop ELSE stop \o more

Match(re, s, st, ic) ==
    CASE re.t = "lit" ->
           LET e == st.pos + Len(re.s) - 1
           IN IF e <= Len(s)
                 /\ (IF ic THEN lower(SubSeq(s, st.pos, e)) = lower(re.s)
                           ELSE SubSeq(s, st.pos, e) = re.s)
              THEN <<[st EXCEPT !.pos = e + 1]>> ELSE <<>>
      [] re.t = "cls" ->
           IF st.pos <= Len(s) /\ InClass(SubSeq(s, st.pos, st.pos), re.set, ic)
           THEN <<[st EXCEPT !.pos = @ + 1]>> ELSE <<>>
      [] re.t = "cat" -> MatchCat(re.items, 1, s, st, ic)
      [] re.t = "alt" -> MatchAlt(re.alts, 1, s, st, ic)
      [] re.t = "rep" -> MatchRep(re, 0, s, st, ic)
      [] re.t = "grp" ->
           LET rs == Match(re.body, s, st, ic)
           IN [i \in 1..Len(rs) |-> [rs[i] EXCEPT !.gs = st.pos, !.ge = rs[i].pos]]
      [] re.t = "eos" ->
           IF st.pos = Len(s) + 1 \/ (st.pos = Len(s) /\ SubSeq(s, st.pos, st.pos) = "\n")
           THEN <<st>> ELSE <<>>

\* what re.search returns when nothing matches (None)
NoMatch == [found |-> FALSE, start |-> 0, end |-> 0, gs |-> 0, ge |-> 0]

\* re.search(pattern, s, re.IGNORECASE if ic else 0): the first match from the
\* leftmost position that has one, or NoMatch
search(re, s, ic) ==
    LET from(i) == Match(re, s, [pos |-> i, gs |-> 0, ge |-> 0], ic)
        starts  == {i \in 1..(Len(s) + 1) : from(i) # <<>>}
    IN IF starts = {} THEN NoMatch
       ELSE LET i  == CHOOSE i1 \in starts : \A i2 \in starts : i1 <= i2
                m  == from(i)[1]
            IN [found |-> TRUE, start |-> i, end |-> m.pos, gs |-> m.gs, ge |-> m.ge]

\* match.group(1)
group1(s, m) == SubSeq(s, m.gs, m.ge - 1)

(***************************************************************************)
(* fallback_classification: its tables and patterns.                       *)
(***************************************************************************)
None == "None"

RequiredFields == {"IsExpense", "Amount", "Mode", "Bank", "Account", "Category", "Receiver"}

\* the "Default response"
DefaultResult ==
    [IsExpense |-> "No", Amount |-> None, Mode |-> None, Bank |-> None,
     Account |-> None, Category |-> None, Receiver |-> None]

expense_keywords ==
    <<"spent", "debited", "withdrawn", "paid", "sent", "transferred",
      "purchase", "payment", "transaction", "deducted", "charged">>

promotional_keywords ==
    <<"offer", "loan", "apply", "click", "link", "promo", "deal",
      "discount", "save", "limited time", "validity">>

banks == <<"ICICI", "HDFC", "SBI", "AXIS", "KOTAK", "PNB", "BOB", "CANARA">>

online_terms == <<"upi", "online", "net banking">>

food_terms == <<"restaurant", "food", "cafe">>

\* (?:INR|Rs\.?|₹)
CurrencyMarker == Alt(<<Lit("INR"), Cat(<<Lit("Rs"), Opt(Lit("."))>>), Lit("₹")>>)

\* ([0-9,]+\.?[0-9]*)
NumberGroup == Grp(Cat(<<Plus(Cls(DigitSet \cup {","})), Opt(Lit(".")), Star(Cls(DigitSet))>>))

amount_patterns ==
    << Cat(<<CurrencyMarker, Star(Cls(SpaceSet)), NumberGroup>>),
       Cat(<<NumberGroup, Star(Cls(SpaceSet)), CurrencyMarker>>),
       Cat(<<Lit("amount"), Star(Cls(SpaceSet \cup {":"})), Opt(CurrencyMarker),
             Star(Cls(SpaceSet)), NumberGroup>>) >>

\* ([x*]+\d{3,4})
MaskedGroup == Grp(Cat(<<Plus(Cls({"x", "*"})), Rep(Cls(DigitSet), 3, 4, TRUE)>>))

account_patterns ==
    << Cat(<<Alt(<<Lit("card"), Lit("a/c"), Lit("account")>>),
             Star(Cls(SpaceSet \cup WordSet)), MaskedGroup>>),
       MaskedGroup >>

receiver_patterns ==
    << Cat(<<Alt(<<Lit("on"), Lit("at"), Lit("to")>>), Plus(Cls(SpaceSet)),
             Grp(Cat(<<Cls(UpperSet), LazyPlus(Cls(UpperSet \cup SpaceSet \cup {"&", "*", "."}))>>)),
             Alt(<<Cat(<<Star(Cls(SpaceSet)), Lit(".")>>), Eos>>)>>),
       Cat(<<Lit("to"), Plus(Cls(SpaceSet)),
             Grp(Cat(<<Cls(UpperSet), LazyPlus(Cls(UpperSet \cup SpaceSet))>>)),
             Alt(<<Cls(SpaceSet), Eos>>)>>) >>

RECURSIVE AmountLoopBreak(_, _)
\* AmountLoop with the loop left at the first capture float() rejects
AmountLoopBreak(text, k) ==
    IF k > Len(amount_patterns) THEN None
    ELSE LET match == search(amount_patterns[k], text, TRUE)
         IN IF match.found
            THEN LET amount_str == RemoveChar(group1(text, match), ",")
                 IN IF float(amount_str) = "ValueError" THEN None ELSE float(amount_str)
            ELSE AmountLoopBreak(text, k + 1)

RECURSIVE AmountLoop(_, _)
\* for pattern in amount_patterns[k..]: the Amount the loop leaves
AmountLoop(text, k) ==
    IF k > Len(amount_patterns) THEN None
    ELSE LET match == search(amount_patterns[k], text, TRUE)
         IN IF match.found
            THEN LET amount_str == RemoveChar(group1(text, match), ",")
                 IN IF float(amount_str) = "ValueError"
                    THEN AmountLoop(text, k + 1)
                    ELSE float(amount_str)
            ELSE AmountLoop(text, k + 1)

\* BankLoop with the bank that occurs first in the text, not in the list
BankByPosition(text, k) ==
    LET at(b) == {i \in 1..(Len(text) - Len(b) + 1) : lower(SubSeq(text, i, i + Len(b) - 1)) = lower(b)}
        found == {j \in k..Len(banks) : at(banks[j]) # {}}
        first(j) == CHOOSE i \in at(banks[j]) : \A i2 \in at(banks[j]) : i <= i2
    IN IF found = {} THEN None
       ELSE banks[CHOOSE j \in found : \A j2 \in found : first(j) <= first(j2)]

RECURSIVE BankLoop(_, _)
\* for bank in banks[k..]: the Bank the loop leaves
BankLoop(text, k) ==
    IF k > Len(banks) THEN None
    ELSE IF Contains(lower(text), lower(banks[k])) THEN banks[k]
    ELSE BankLoop(text, k + 1)

RECURSIVE AccountLoop(_, _)
\* for pattern in account_patterns[k..]: the Account the loop leaves
AccountLoop(text, k) ==
    IF k > Len(account_patterns) THEN None
    ELSE LET match == search(account_patterns[k], text, TRUE)
         IN IF match.found THEN upper(group1(text, match))
            ELSE AccountLoop(text, k + 1)

\* ModeOf with the online terms looked for before "card"
ModeOnlineFirst(text) ==
    IF ContainsAny(lower(text), online_terms) THEN "Online"
    ELSE IF Contains(lower(text), "card")
    THEN (IF Contains(lower(text), "credit") THEN "Credit Card" ELSE "Debit Card")
    ELSE IF Contains(lower(text), "cash") THEN "Cash"
    ELSE None

\* the if / elif chain that determines the mode
ModeOf(text) ==
    IF Contains(lower(text), "card")
    THEN (IF Contains(lower(text), "credit") THEN "Credit Card" ELSE "Debit Card")
    ELSE IF ContainsAny(lower(text), online_terms) THEN "Online"
    ELSE IF Contains(lower(text), "cash") THEN "Cash"
    ELSE None

RECURSIVE ReceiverLoop(_, _)
\* for pattern in receiver_patterns[k..]: the Receiver the loop leaves
ReceiverLoop(text, k) ==
    IF k > Len(receiver_patterns) THEN None
    ELSE LET match == search(receiver_patterns[k], text, FALSE)
         IN IF match.found /\ Len(strip(group1(text, match))) > 3
            THEN strip(group1(text, match))
            ELSE ReceiverLoop(text, k + 1)

\* CategoryOf with the food terms looked for before "amazon"
CategoryFoodFirst(receiver, category) ==
    IF receiver # None /\ receiver # ""
    THEN (IF ContainsAny(lower(receiver), food_terms) THEN "Food"
          ELSE IF Contains(lower(receiver), "amazon") THEN "Shopping"
          ELSE "Shopping")
    ELSE category

\* "Set category based on receiver": the Category of a record
CategoryOf(receiver, category) ==
    IF receiver # None /\ receiver # ""
    THEN (IF Contains(lower(receiver), "amazon") THEN "Shopping"
          ELSE IF ContainsAny(lower(receiver), food_terms) THEN "Food"
          ELSE "Shopping")
    ELSE category

(***************************************************************************)
(* The texts the classifier is run on: the two built-in test cases and     *)
(* every text made of up to MaxFragments pieces of Vocabulary.             *)
(***************************************************************************)
ExampleExpense ==
    "INR 904.00 spent using ICICI Bank Card XX7003 on 24-Jun-25 on IND*Amazon.in -. Avl Limit: INR 58,859.45."

ExamplePromotional ==
    "Dear Customer, Rs. 20 Lacs HDFC Bank Personal Loan at reduced rates. Apply now!"

Vocabulary ==
    << "spent ", "Paid Rs ,. ", "INR 904.00 ", "Rs , 5 Rs ", "amount: 7 ",
       "HDFC payment ", "icici Card XX7003 ", "charged credit a/c *123 ", "xx4567 ",
       "debited by upi cash ", "cash ", "Loan offer ", "sent to CAFE ",
       "on AMAZON FOOD.", "at KFC. ", "at BIG MART. " >>

MaxFragments == 2

RECURSIVE Texts(_)
Texts(n) ==
    IF n = 0 THEN {""}
    ELSE LET prev == Texts(n - 1)
         IN prev \cup {t \o Vocabulary[i] : t \in prev, i \in 1..Len(Vocabulary)}

Inputs == Texts(MaxFragments) \cup {ExampleExpense, ExamplePromotional}

(***************************************************************************)
(* State.  heap holds the dicts the program has made, in the order it made *)
(* them; result is the local of fallback_classification (the place in heap *)
(* of its dict, 0 while unbound); returned is what the calls made so far   *)
(* gave back to their callers: the text, the dict (ref), what the dict     *)
(* held at that moment (val) and the function that made it (by).  pc is    *)
(* the statement the program is at; "raised" is an exception that nothing  *)
(* catches leaving the call.                                               *)
(***************************************************************************)
VARIABLES sms_text, pc, heap, result, returned

\* load_test_data: the file data/prompt_config.jsonl (source), the number of
\* the line the reader gives next (reader), the local test_messages, and
\* test_data, what main gets from the call
VARIABLES source, reader, test_messages, test_data

call_vars == <<sms_text, heap, result, returned>>

load_vars == <<source, reader, test_messages, test_data>>

vars == <<sms_text, pc, heap, result, returned, source, reader, test_messages, test_data>>

\* load_test_data is not running
NotLoading ==
    /\ source = [exists |-> FALSE, lines |-> <<>>]
    /\ reader = 0
    /\ test_messages = <<>>
    /\ test_data = <<>>

\* NewResult with one dict, made by the first call, that every call uses
SharedResult(h) == IF h = <<>> THEN [heap |-> <<DefaultResult>>, ref |-> 1] ELSE [heap |-> h, ref |-> 1]

\* result = {...}: a new dict
NewResult(h) == [heap |-> Append(h, DefaultResult), ref |-> Len(h) + 1]

BindResult ==
    /\ pc = "fallback_classification"
    /\ heap' = NewResult(heap).heap
    /\ result' = NewResult(heap).ref
    /\ pc' = "promotional"
    /\ UNCHANGED <<sms_text, returned>>

\* SkipPromotional with a text that reports a transaction never skipped
SkipPromotionalUnlessExpense ==
    /\ pc = "promotional"
    /\ pc' = IF ContainsAny(lower(sms_text), promotional_keywords)
                /\ ~ContainsAny(lower(sms_text), expense_keywords)
             THEN "return" ELSE "expense"
    /\ UNCHANGED <<sms_text, heap, result, returned>>

\* "Skip promotional messages"
SkipPromotional ==
    /\ pc = "promotional"
    /\ pc' = IF ContainsAny(lower(sms_text), promotional_keywords) THEN "return" ELSE "expense"
    /\ UNCHANGED <<sms_text, heap, result, returned>>

\* CheckExpense with the extraction outside the if
CheckExpenseExtractAlways ==
    /\ pc = "expense"
    /\ heap' = IF ContainsAny(lower(sms_text), expense_keywords)
               THEN [heap EXCEPT ![result].IsExpense = "Yes"] ELSE heap
    /\ pc' = "amount"
    /\ UNCHANGED <<sms_text, result, returned>>

\* "Check if it's an expense"
CheckExpense ==
    /\ pc = "expense"
    /\ IF ContainsAny(lower(sms_text), expense_keywords)
       THEN /\ heap' = [heap EXCEPT ![result].IsExpense = "Yes"]
            /\ pc' = "amount"
       ELSE /\ heap' = heap
            /\ pc' = "return"
    /\ UNCHANGED <<sms_text, result, returned>>

RECURSIVE AmountLoopUncaught(_, _)
\* AmountLoop with no try / except around float()
AmountLoopUncaught(text, k) ==
    IF k > Len(amount_patterns) THEN None
    ELSE LET match == search(amount_patterns[k], text, TRUE)
         IN IF match.found THEN float(RemoveChar(group1(text, match), ","))
            ELSE AmountLoopUncaught(text, k + 1)

\* ExtractAmount with the ValueError of float() leaving the call
ExtractAmountUncaught ==
    /\ pc = "amount"
    /\ IF AmountLoopUncaught(sms_text, 1) = "ValueError"
       THEN /\ pc' = "raised"
            /\ heap' = heap
       ELSE /\ heap' = [heap EXCEPT ![result].Amount = AmountLoop(sms_text, 1)]
            /\ pc' = "bank"
    /\ UNCHANGED <<sms_text, result, returned>>

ExtractAmount ==
    /\ pc = "amount"
    /\ heap' = [heap EXCEPT ![result].Amount = AmountLoop(sms_text, 1)]
    /\ pc' = "bank"
    /\ UNCHANGED <<sms_text, result, returned>>

ExtractBank ==
    /\ pc = "bank"
    /\ heap' = [heap EXCEPT ![result].Bank = BankLoop(sms_text, 1)]
    /\ pc' = "account"
    /\ UNCHANGED <<sms_text, result, returned>>

ExtractAccount ==
    /\ pc = "account"
    /\ heap' = [heap EXCEPT ![result].Account = AccountLoop(sms_text, 1)]
    /\ pc' = "mode"
    /\ UNCHANGED <<sms_text, result, returned>>

DetermineMode ==
    /\ pc = "mode"
    /\ heap' = [heap EXCEPT ![result].Mode = ModeOf(sms_text)]
    /\ pc' = "receiver"
    /\ UNCHANGED <<sms_text, result, returned>>

ExtractReceiver ==
    /\ pc = "receiver"
    /\ heap' = [heap EXCEPT ![result].Receiver = ReceiverLoop(sms_text, 1)]
    /\ pc' = "category"
    /\ UNCHANGED <<sms_text, result, returned>>

SetCategory ==
    /\ pc = "category"
    /\ heap' = [heap EXCEPT ![result].Category = CategoryOf(heap[result].Receiver, @)]
    /\ pc' = "return"
    /\ UNCHANGED <<sms_text, result, returned>>

\* return result
Return ==
    /\ pc = "return"
    /\ returned' = Append(returned, [sms |-> sms_text, ref |-> result, val |-> heap[result],
                                     by |-> "fallback_classification"])
    /\ result' = 0
    /\ pc' = "done"
    /\ UNCHANGED <<sms_text, heap>>

Fallback ==
    \/ BindResult
    \/ SkipPromotional
    \/ CheckExpense
    \/ ExtractAmount
    \/ ExtractBank
    \/ ExtractAccount
    \/ DetermineMode
    \/ ExtractReceiver
    \/ SetCategory
    \/ Return

\* one call of fallback_classification on a text of Inputs
Init ==
    /\ sms_text \in Inputs
    /\ pc = "fallback_classification"
    /\ heap = <<>>
    /\ result = 0
    /\ returned = <<>>
    /\ NotLoading

Next == Fallback /\ UNCHANGED load_vars

Spec == Init /\ [][Next]_vars

(***************************************************************************)
(* T5SMSClassifier.classify_sms, called by test_model_performance once per *)
(* test case.  The model is not part of the program: a response is what    *)
(* the try block makes of it, an exception raised by the tokenizer or the  *)
(* generation ("raise"), a text with no {...} span ("nospan"), a span      *)
(* json.loads rejects ("badjson"), or the dict json.loads makes of the     *)
(* span ("json").                                                          *)
(***************************************************************************)
ModelResponses ==
    { [kind |-> "raise"], [kind |-> "nospan"], [kind |-> "badjson"],
      [kind |-> "json", obj |-> [IsExpense |-> "Yes", Amount |-> "5.0"]],
      [kind |-> "json", obj |-> DefaultResult],
      [kind |-> "json", obj |-> [DefaultResult EXCEPT !.Amount = "5.0"]],
      [kind |-> "json", obj |-> [IsExpense |-> "Maybe", Amount |-> None, Mode |-> None,
                                 Bank |-> None, Account |-> None, Category |-> None,
                                 Receiver |-> None, Note |-> "x"]] }

\* the sms of the test cases
TestInputs == {ExampleExpense, ExamplePromotional, "spent Rs , 5 Rs "}

MaxCalls == 3

\* all(field in result for field in required_fields)
HasRequiredFields(obj) == RequiredFields \subseteq DOMAIN obj

ClassifySms(text, response) ==
    /\ pc \in {"test_model_performance", "done"}
    /\ Len(returned) < MaxCalls
    /\ sms_text' = text
    /\ result' = 0
    /\ IF response.kind = "json" /\ HasRequiredFields(response.obj)
       THEN /\ heap' = Append(heap, response.obj)
            /\ returned' = Append(returned, [sms |-> text, ref |-> Len(heap) + 1,
                                             val |-> response.obj, by |-> "classify_sms"])
            /\ pc' = "done"
       ELSE /\ pc' = "fallback_classification"
            /\ UNCHANGED <<heap, returned>>

InitCalls ==
    /\ sms_text = ""
    /\ pc = "test_model_performance"
    /\ heap = <<>>
    /\ result = 0
    /\ returned = <<>>
    /\ NotLoading

NextCalls ==
    /\ \/ \E text \in TestInputs, response \in ModelResponses : ClassifySms(text, response)
       \/ Fallback
    /\ UNCHANGED load_vars

SpecCalls == InitCalls /\ [][NextCalls]_vars

(***************************************************************************)
(* load_test_data.  The file is missing or holds lines; a line is text the *)
(* reader rejects (json FALSE) or the dict it parses to (value).  Lines    *)
(* that parse to something other than a dict are left out.                 *)
(***************************************************************************)
SystemMessage == [role |-> "system", content |-> "Classify the SMS"]

UserMessage == [role |-> "user", content |-> "spent Rs , 5 Rs "]

AssistantMessage == [role |-> "assistant", content |-> "{}"]

LineKinds ==
    { [json |-> FALSE],
      [json |-> TRUE, value |-> [prompt |-> "spent"]],
      [json |-> TRUE, value |-> [messages |-> <<SystemMessage>>]],
      [json |-> TRUE, value |-> [messages |-> <<SystemMessage, UserMessage>>]],
      [json |-> TRUE, value |-> [messages |-> <<SystemMessage, UserMessage, AssistantMessage>>]],
      [json |-> TRUE, value |-> [messages |-> <<SystemMessage, [role |-> "user"]>>]] }

MaxLines == 6

Sources ==
    {[exists |-> FALSE, lines |-> <<>>]}
        \cup {[exists |-> TRUE, lines |-> l] : l \in UNION {[1..n -> LineKinds] : n \in 0..MaxLines}}

\* the "Fallback test data"
FallbackCases ==
    << [sms |-> ExampleExpense,
        expected |-> "{\"IsExpense\": \"Yes\", \"Amount\": 904.0, \"Mode\": \"Credit Card\", \"Bank\": \"ICICI\", \"Account\": \"XX7003\", \"Category\": \"Shopping\", \"Receiver\": \"Amazon\"}"],
       [sms |-> ExamplePromotional,
        expected |-> "{\"IsExpense\": \"No\", \"Amount\": null, \"Mode\": null, \"Bank\": null, \"Account\": null, \"Category\": null, \"Receiver\": null}"] >>

\* test_messages[:5]
FirstCases == 5

\* test_messages = [] and jsonlines.open(...), which raises when there is no file
OpenSource ==
    /\ pc = "load_test_data"
    /\ test_messages' = <<>>
    /\ reader' = 1
    /\ pc' = IF source.exists THEN "for" ELSE "except"
    /\ UNCHANGED <<source, test_data>>
    /\ UNCHANGED call_vars

\* line["messages"][i]["content"], i counted from 0: a KeyError without the key
content(line, i) ==
    IF "content" \in DOMAIN line.messages[i + 1] THEN line.messages[i + 1].content ELSE "KeyError"

\* one turn of "for line in reader": the reader raises on a line that is not
\* JSON, the body raises on a message without content
ReadLine ==
    /\ pc = "for"
    /\ IF reader > Len(source.lines)
       THEN /\ pc' = "return"
            /\ UNCHANGED <<reader, test_messages>>
       ELSE IF ~source.lines[reader].json
       THEN /\ pc' = "except"
            /\ UNCHANGED <<reader, test_messages>>
       ELSE LET line == source.lines[reader].value
            IN IF "messages" \in DOMAIN line /\ Len(line.messages) >= 2
               THEN LET user_message == content(line, 1)
                        expected_response == IF Len(line.messages) > 2 THEN content(line, 2) ELSE None
                    IN IF user_message = "KeyError" \/ expected_response = "KeyError"
                       THEN /\ pc' = "except"
                            /\ UNCHANGED <<reader, test_messages>>
                       ELSE /\ test_messages' = Append(test_messages,
                                                       [sms |-> user_message, expected |-> expected_response])
                            /\ reader' = reader + 1
                            /\ pc' = "for"
               ELSE /\ reader' = reader + 1
                    /\ pc' = "for"
                    /\ UNCHANGED test_messages
    /\ UNCHANGED <<source, test_data>>
    /\ UNCHANGED call_vars

\* except Exception: the fallback test data
ExceptFallback ==
    /\ pc = "except"
    /\ test_messages' = FallbackCases
    /\ pc' = "return"
    /\ UNCHANGED <<source, reader, test_data>>
    /\ UNCHANGED call_vars

\* return test_messages[:5]
ReturnFirstCases ==
    /\ pc = "return"
    /\ test_data' = SubSeq(test_messages, 1, IF Len(test_messages) < FirstCases
                                             THEN Len(test_messages) ELSE FirstCases)
    /\ pc' = "loaded"
    /\ UNCHANGED <<source, reader, test_messages>>
    /\ UNCHANGED call_vars

InitLoad ==
    /\ source \in Sources
    /\ pc = "load_test_data"
    /\ reader = 0
    /\ test_messages = <<>>
    /\ test_data = <<>>
    /\ sms_text = ""
    /\ heap = <<>>
    /\ result = 0
    /\ returned = <<>>

NextLoad ==
    \/ OpenSource
    \/ ReadLine
    \/ ExceptFallback
    \/ ReturnFirstCases

SpecLoad == InitLoad /\ [][NextLoad]_vars

(***************************************************************************)
(* The claims.  Out is the dict the last call gave back.                   *)
(***************************************************************************)
Out == heap[returned[Len(returned)].ref]

OtherFields == RequiredFields \ {"IsExpense"}

AllNull(rec) == \A f \in OtherFields : rec[f] = None

\* group 1 of the first match of the k-th amount pattern ("" when it has none)
AmountCapture(text, k) ==
    LET m == search(amount_patterns[k], text, TRUE) IN IF m.found THEN group1(text, m) ELSE ""

HasDigit(s) == \E i \in 1..Len(s) : SubSeq(s, i, i) \in DigitSet

\* one or more x or * and then 3 or 4 digits, in either case
IsMaskedToken(s) ==
    \E n \in 1..Len(s) :
        /\ \A i \in 1..n : lower(SubSeq(s, i, i)) \in {"x", "*"}
        /\ Len(s) - n \in {3, 4}
        /\ AllDigits(SubSeq(s, n + 1, Len(s)))

\* the statements of fallback_classification a call can be at, and "done"
ProgramPoints ==
    {"fallback_classification", "promotional", "expense", "amount", "bank", "account",
     "mode", "receiver", "category", "return", "done"}

\* C1: fallback_classification is total: on every text it returns, raising
\* nothing, a record whose keys are exactly the seven required ones, with
\* IsExpense "Yes" or "No" (a call is at a statement of the function until
\* it has returned: "raised" is not one).
C1_Totality ==
    /\ pc \in ProgramPoints
    /\ pc = "done" =>
         /\ Len(returned) = 1
         /\ DOMAIN Out = RequiredFields
         /\ Out.IsExpense \in {"Yes", "No"}

\* a call has returned on a text whose first amount capture float() rejects
C1_Witness ==
    /\ pc = "done"
    /\ search(amount_patterns[1], sms_text, TRUE).found
    /\ ~HasDigit(AmountCapture(sms_text, 1))

C2_Markers ==
    <<"offer", "loan", "apply", "click", "link", "promo", "deal", "discount",
      "save", "limited time", "validity">>

\* C2: promotional dominance: a text whose lower-cased form holds a
\* promotional marker gets IsExpense "No" and the six other fields null,
\* whatever else it holds.
C2_PromotionalDominance ==
    (pc = "done" /\ ContainsAny(lower(sms_text), C2_Markers)) =>
        (Out.IsExpense = "No" /\ AllNull(Out))

\* a call has returned on a text with a promotional marker, a transaction
\* marker and a bank name
C2_Witness ==
    /\ pc = "done"
    /\ ContainsAny(lower(sms_text), C2_Markers)
    /\ ContainsAny(lower(sms_text), expense_keywords)
    /\ BankLoop(sms_text, 1) # None

\* C3: non-expense nullity: in every dict of the classifier, at every step
\* and in what it returns, IsExpense "No" comes with the six other fields
\* null.
C3_NonExpenseNullity ==
    \A r \in 1..Len(heap) : heap[r].IsExpense = "No" => AllNull(heap[r])

\* a call has returned "No" on a text that is not promotional and holds an
\* amount, a bank or a masked token
C3_Witness ==
    /\ pc = "done"
    /\ Out.IsExpense = "No"
    /\ ~ContainsAny(lower(sms_text), promotional_keywords)
    /\ AmountLoop(sms_text, 1) # None
    /\ BankLoop(sms_text, 1) # None

\* C4: on the built-in expense example the record is IsExpense "Yes",
\* Amount 904.0, Bank "ICICI", Mode "Debit Card", an Account that is a
\* masked token, a Receiver with Amazon in it and Category "Shopping".
C4_ExampleExpense ==
    (pc = "done" /\ sms_text = ExampleExpense) =>
        /\ Out.IsExpense = "Yes"
        /\ Out.Amount = "904.0"
        /\ Out.Bank = "ICICI"
        /\ Out.Mode = "Debit Card"
        /\ IsMaskedToken(Out.Account)
        /\ Contains(lower(Out.Receiver), "amazon")
        /\ Out.Category = "Shopping"

\* C5: every record classify_sms returns has exactly the seven keys, with
\* IsExpense "Yes" or "No" and the other fields null when it is "No".
C5_ValidRecord ==
    \A i \in 1..Len(returned) :
        /\ DOMAIN returned[i].val = RequiredFields
        /\ returned[i].val.IsExpense \in {"Yes", "No"}
        /\ returned[i].val.IsExpense = "No" => AllNull(returned[i].val)

C6_Order == <<"ICICI", "HDFC", "SBI", "AXIS", "KOTAK", "PNB", "BOB", "CANARA">>

\* C6: bank priority: the Bank of an expense text is the earliest name of
\* the fixed list that the text holds (in any case), wherever the names are
\* in the text, and null exactly when it holds none.
C6_BankPriority ==
    (pc = "done" /\ Out.IsExpense = "Yes") =>
        LET held == {k \in 1..Len(C6_Order) : Contains(lower(sms_text), lower(C6_Order[k]))}
        IN IF held = {} THEN Out.Bank = None
           ELSE \E k \in held : Out.Bank = C6_Order[k] /\ \A j \in held : k <= j

\* an expense text in which HDFC comes before ICICI has returned
C6_Witness ==
    /\ pc = "done"
    /\ Out.IsExpense = "Yes"
    /\ \E i, j \in 1..(Len(sms_text) - 4) :
         /\ i < j
         /\ lower(SubSeq(sms_text, i, i + 3)) = "hdfc"
         /\ lower(SubSeq(sms_text, j, j + 4)) = "icici"

\* C7: determinism: calls of fallback_classification on the same text give
\* equal records, whatever calls come between them; the dict a call gave
\* back is not the dict of another call and no later call changes it.
C7_Deterministic ==
    \A i, j \in 1..Len(returned) :
        /\ heap[returned[i].ref] = returned[i].val
        /\ i # j => returned[i].ref # returned[j].ref
        /\ (/\ returned[i].by = "fallback_classification"
            /\ returned[j].by = "fallback_classification"
            /\ returned[i].sms = returned[j].sms) => returned[i].val = returned[j].val

\* the classifier ran on an expense text, then on another text, then on the
\* first again
C7_Witness ==
    /\ Len(returned) = 3
    /\ \A i \in 1..3 : returned[i].by = "fallback_classification"
    /\ returned[1].sms = returned[3].sms
    /\ returned[2].sms # returned[1].sms
    /\ returned[1].val.IsExpense = "Yes"
    /\ returned[2].val.IsExpense = "No"

\* C8: when the keyword pattern (card, a/c or account, then a masked token)
\* matches an expense text, Account is the whole masked token upper-cased
\* (no mask character of the text comes right before what is captured, and
\* "Card XX7003" gives "XX7003"); the bare pattern is used only when the
\* keyword pattern does not match.
C8_WholeToken ==
    (pc = "done" /\ Out.IsExpense = "Yes") =>
        LET m == search(account_patterns[1], sms_text, TRUE)
            b == search(account_patterns[2], sms_text, TRUE)
        IN /\ m.found =>
                /\ Out.Account = upper(group1(sms_text, m))
                /\ m.gs > 1 => lower(SubSeq(sms_text, m.gs - 1, m.gs - 1)) \notin {"x", "*"}
           /\ Contains(sms_text, "Card XX7003") => Out.Account = "XX7003"
           /\ (~m.found /\ b.found) => Out.Account = upper(group1(sms_text, b))
           /\ (~m.found /\ ~b.found) => Out.Account = None

\* C9: Amount is the number parsed from the capture (commas removed) of the
\* first amount pattern, in their order, whose match has a capture that
\* parses; a capture that does not parse raises nothing; Amount is null when
\* no pattern has one, and a number that is not negative otherwise.
C9_AmountRecovery ==
    /\ pc # "raised"
    /\ (pc = "done" /\ Out.IsExpense = "Yes") =>
        LET good == {k \in 1..3 : HasDigit(AmountCapture(sms_text, k))}
        IN /\ IF good = {} THEN Out.Amount = None
              ELSE \E k \in good :
                     /\ \A j \in good : k <= j
                     /\ Out.Amount = float(RemoveChar(AmountCapture(sms_text, k), ","))
           /\ Out.Amount # None =>
                (Out.Amount # "ValueError" /\ SubSeq(Out.Amount, 1, 1) \in DigitSet)
           /\ sms_text = "spent Rs , 5 Rs " => Out.Amount = "5.0"
           /\ sms_text = "spent INR 904.00 " => Out.Amount = "904.0"

\* an expense text has returned with an Amount although the capture of the
\* first pattern's match did not parse
C9_Witness ==
    /\ pc = "done"
    /\ Out.IsExpense = "Yes"
    /\ search(amount_patterns[1], sms_text, TRUE).found
    /\ ~HasDigit(AmountCapture(sms_text, 1))
    /\ Out.Amount # None

C11_CategoryOfReceiver ==
    pc = "done" =>
        LET has(w) == Contains(lower(Out.Receiver), w)
        IN /\ (Out.Category = None) <=> (Out.Receiver = None)
           /\ Out.Category \in {None, "Food", "Shopping"}
           /\ Out.Receiver # None =>
                /\ Len(strip(Out.Receiver)) > 3
                /\ Out.Category =
                     IF (has("restaurant") \/ has("food") \/ has("cafe")) /\ ~has("amazon")
                     THEN "Food" ELSE "Shopping"

\* a text whose receiver holds both "amazon" and "food" has returned
C11_Witness ==
    /\ pc = "done"
    /\ Out.Receiver # None
    /\ Contains(lower(Out.Receiver), "amazon")
    /\ Contains(lower(Out.Receiver), "food")

\* a line the reader rejects, or a dict without the messages structure the
\* loop reads (a list of two or more messages, the second and third with a
\* content)
MalformedLine(l) ==
    \/ ~l.json
    \/ "messages" \notin DOMAIN l.value
    \/ Len(l.value.messages) < 2
    \/ \E i \in 2..Len(l.value.messages) : i <= 3 /\ "content" \notin DOMAIN l.value.messages[i]

\* C12: test-data fallback: when the file is missing or holds a line that
\* is not JSON or an entry without the messages structure, load_test_data
\* returns exactly the two hard-coded cases, whatever it read before; what
\* it returns is never empty and never longer than 5.
C12_FallbackOnMalformed ==
    pc = "loaded" =>
        /\ (~source.exists \/ \E i \in 1..Len(source.lines) : MalformedLine(source.lines[i]))
               => test_data = FallbackCases
        /\ Len(test_data) >= 1
        /\ Len(test_data) <= 5

====
